---- MODULE Spec2Model ----
(***************************************************************************)
(* Model of the women-safety monitoring pipeline.                          *)
(*                                                                         *)
(*  - MultiCameraMonitor (ai_model/multi_camera_monitor.py): one           *)
(*    camera_worker thread per enabled camera, one alert_sender_worker     *)
(*    thread, the main thread in the menu and the status dashboard, the    *)
(*    shared Queue and the shared flag self.running.                       *)
(*      Spec         one monitoring session, any camera configuration      *)
(*      SpecFeed     one session of the default configuration (cam1 only), *)
(*                   every loop iteration a step                           *)
(*      SpecFeedFair SpecFeed with the alert sender scheduled fairly       *)
(*      SpecE2E      SpecFeed with lone-person very-dark frames only and   *)
(*                   a backend that answers 200                            *)
(*      SpecRestart  the default configuration over MaxSessions sessions   *)
(*  - EnhancedSafetyMonitor.send_alert and SafetyMonitor.send_alert        *)
(*    (ai_model/enhanced_safety_model.py, ai_model/camera_monitor.py):     *)
(*    the single-feed variants, which keep the cooldown in the dictionary  *)
(*    self.last_alert_time and post synchronously.                         *)
(*      SpecSingle                                                         *)
(*  - The risk assessment of one frame, analyze_scene_advanced and         *)
(*    analyze_frame.                                                       *)
(*      SpecRisk                                                           *)
(*  - The tracker of EnhancedSafetyMonitor, self.person_tracks, with       *)
(*    calculate_speed and detect_loitering.                                *)
(*      SpecTrack       one monitor_camera call                            *)
(*      SpecTrackFeeds  several monitor_camera calls on one monitor        *)
(*      SpecTrackBoxes  the person is not always the first box             *)
(*  - The backend (backend/main.py): the list alerts, POST /send-alert and  *)
(*    the event_generator of GET /alerts/stream.                           *)
(*      SpecBackend                                                        *)
(*  - SafetyMonitor.analyze_scene (camera_monitor.py) is assessed in       *)
(*    SpecRisk with the other two risk assessments.                        *)
(*                                                                         *)
(* Time is time.time() in whole seconds.  The outcome of a request is a    *)
(* status code, or 0 when requests.post raised (a transport error).        *)
(***************************************************************************)
EXTENDS Integers, Sequences, FiniteSets, TLC

VARIABLES
    running,          \* MultiCameraMonitor.running
    alert_queue,      \* MultiCameraMonitor.alert_queue (queue.Queue, FIFO)
    cameras_enabled,  \* cameras[cam_id]['enabled']
    camera_stats,     \* MultiCameraMonitor.camera_stats
    session,          \* number of start_monitoring calls that started threads
    mpc,              \* main thread: "menu", "dashboard", "joining"
    wpc,              \* camera_worker thread position, per <<session, cam_id>>
    cap_open,         \* camera_worker threads whose cap is opened and not released
    frame_count,      \* camera_worker local frame_count
    last_alert_time,  \* camera_worker local last_alert_time
    analysis,         \* camera_worker local analysis['severity'] ("none" before the first)
    dpc,              \* alert_sender_worker thread position, per session
    alert_data,       \* alert_sender_worker local alert_data (the dequeued item)
    next_id,          \* identity of the next alert_data dict created
    posted,           \* every requests.post of the alert sender, with its outcome
    now,              \* time.time()
    esm_last_alert_time,  \* EnhancedSafetyMonitor / SafetyMonitor: self.last_alert_time
    esm_posted,       \* every requests.post of send_alert, with its outcome
    scene,            \* what a frame shows: detections, brightness, tracker signals
    assessed,         \* the analysis dict returned for the scene, and by which method
    person_tracks,    \* EnhancedSafetyMonitor.person_tracks (a defaultdict)
    esm_source,       \* source of the monitor_camera call in progress, or "none"
    signals,          \* tracker signal computed by the last analyze_scene_advanced
    subject,          \* the person in front of the camera: trajectory and progress
    track_sources,    \* history: the source of the frame behind each retained sample
    health,           \* outcome of the health request of the last start_monitoring call
    alerts,           \* backend/main.py: the list alerts (each alert by its number)
    stream,           \* backend: the event_generator of each /alerts/stream client
    emitted           \* backend: what each client has been sent, in order

main_vars == <<running, cameras_enabled, session, mpc, health>>
worker_vars == <<camera_stats, wpc, cap_open, frame_count, last_alert_time, analysis>>
sender_vars == <<dpc, alert_data, posted>>
queue_vars == <<alert_queue, next_id>>
risk_vars == <<scene, assessed>>
track_vars == <<person_tracks, esm_source, signals, subject, track_sources>>
single_vars == <<esm_last_alert_time, esm_posted, risk_vars, track_vars>>
backend_vars == <<alerts, stream, emitted>>
vars == <<main_vars, worker_vars, sender_vars, queue_vars, now, single_vars,
         backend_vars>>

-----------------------------------------------------------------------------
(* Bounds of the model *)

MaxSessions == 2      \* start_monitoring calls explored by SpecRestart
MaxFrames == 60       \* frames a source delivers to one worker
ClockStart == 45      \* time.time() when the program starts
TickStep == 30        \* granularity of the clock
MaxTicks == 2         \* clock ticks explored
MaxFramesRestart == 30    \* frames a source delivers to one worker in SpecRestart
MaxPosts == 3         \* requests of send_alert explored by SpecSingle
MaxPersons == 4       \* persons detected in one frame
MaxUpdates == 31      \* analysed frames that show the person, in SpecTrack
MaxMonitorCalls == 2  \* monitor_camera calls explored by SpecTrackFeeds
MaxAlerts == 3        \* alerts posted to the backend, in SpecBackend
MaxUpdatesBoxes == 3  \* analysed frames that show the person, in SpecTrackBoxes
MaxUpdatesFeeds == 3  \* analysed frames that show a person, in SpecTrackFeeds

(* Program constants *)

alert_cooldown == 30       \* camera_worker: alert_cooldown = 30
ProcessEvery == 30         \* camera_worker: if frame_count % 30 == 0
VeryDarkBelow == 50        \* analyze_frame: brightness < 50
SceneDarkBelow == 70        \* SafetyMonitor.analyze_scene: is_dark = brightness < 70
DarkBelow == 80            \* analyze_frame: is_dark = brightness < 80
HTTP_OK == 200             \* response.status_code == 200
RunSpeedAbove == 50        \* detect_running: speed > 50
VeryCrowdedAbove == 60     \* analyze_crowd_density: density_ratio > 0.6, in hundredths
CrowdedAbove == 30         \* analyze_crowd_density: density_ratio > 0.3
ModerateAbove == 10        \* analyze_crowd_density: density_ratio > 0.1
None == -1                 \* camera_stats[cam_id]['last_alert'] = None
TrackMaxLen == 30          \* person_tracks: deque(maxlen=30)
LoiterSeconds == 300       \* detect_loitering: time_in_area > 300
LoiterMinSamples == 10     \* detect_loitering: len(positions) > 10
LoiterRadius == 100        \* detect_loitering: area_radius < 100

Cams == {"cam1", "cam2"}
Sessions == 1..MaxSessions
Workers == Sessions \X Cams
Frames == {<<1, 40>>, <<3, 90>>}       \* <<persons detected, mean brightness>>
AllFrames == (0..3) \X {40, 60, 90}    \* every person count and lighting class
Sources == {"webcam", "video"}         \* monitor_camera(source): 0 or a video path
Outcomes == {HTTP_OK, 500, 0}          \* 200, another status, requests.post raised
NoAlert == [id |-> 0]
MaxTime == ClockStart + MaxTicks * TickStep

(* What a frame shows to analyze_scene_advanced: the persons detected, the
   mean brightness, the signals of person_tracks['person_0'] (loitering, speed
   in pixels per second), whether a person is in a risk zone, and the density
   ratio in hundredths.  Without persons the density is 0 and nobody is in a
   risk zone; a person has a box of positive area. *)
BrightnessLevels == {30, 49, 50, 69, 70, 79, 80, 90}
Scenes ==
    {s \in [num_persons : 0..MaxPersons,
            brightness : BrightnessLevels,
            loitering : BOOLEAN,
            speed : {0, 50, 51},
            in_risk_zone : BOOLEAN,
            density : {0, 5, 10, 11, 30, 31, 60, 61}] :
        /\ (s.num_persons = 0) <=> (s.density = 0)
        /\ (s.num_persons = 0) => ~s.in_risk_zone}
EmptyScene == [num_persons |-> 0, brightness |-> 90, loitering |-> FALSE,
               speed |-> 0, in_risk_zone |-> FALSE, density |-> 0]
NoAssessment == [by |-> "none"]

(* The person in front of the camera walks one of these trajectories; the
   centre of the box at the k-th analysed frame that shows the person: *)
Motions == {"pace", "stride", "diag"}
Position(motion, k) ==
    CASE motion = "pace"   -> <<IF k % 2 = 0 THEN 0 ELSE 99, 0>>
      [] motion = "stride" -> <<IF k % 2 = 0 THEN 0 ELSE 100, 0>>
      [] motion = "diag"   -> <<3 * k, 4 * k>>
NoSubject == [motion |-> "pace", step |-> 0, updates |-> 0, calls |-> 0]
Waits == {1, 300}                      \* seconds that pass between two frames
Elapsed == {0, 1, 300, 301}            \* seconds since the start, in SpecTrack
TrackIds == {"person_0", "person_1"}   \* a frame has at most two boxes
NoSignals == [computed |-> "none"]
Clients == {"c1", "c2"}                \* clients of GET /alerts/stream
NoStream == [pc |-> "closed", last_index |-> 0, batch |-> <<>>]
BoxIndexes == {0, 1}                   \* index of the person's box in detection.boxes

-----------------------------------------------------------------------------
(* MultiCameraMonitor.analyze_frame: the risk assessment of one frame with
   num_persons detected persons (class 0, confidence > 0.5) and mean
   brightness `brightness`. *)
analyze_frame(num_persons, brightness) ==
    LET is_dark == brightness < DarkBelow
        sev_type ==
            IF num_persons = 1 /\ brightness < VeryDarkBelow
              THEN <<"CRITICAL", "Lone Woman - Very Dark Area">>
            ELSE IF num_persons = 1 /\ is_dark
              THEN <<"HIGH", "Lone Woman - Dark Area">>
            ELSE IF num_persons = 2 /\ is_dark
              THEN <<"HIGH", "Two Persons - Dark Area">>
            ELSE IF num_persons = 1
              THEN <<"MEDIUM", "Lone Woman Detected">>
            ELSE IF num_persons >= 3
              THEN <<"LOW", "Multiple Persons">>
            ELSE <<"LOW", "Normal Activity">>
    IN  [person_count |-> num_persons,
         severity     |-> sev_type[1],
         alert_type   |-> sev_type[2],
         brightness   |-> brightness,
         is_dark      |-> is_dark]

(* camera_worker line 142: analysis['severity'] in ['CRITICAL','HIGH','MEDIUM'] *)
SeverityAlerts(severity) == severity \in {"CRITICAL", "HIGH", "MEDIUM"}

(* camera_worker line 143: current_time - last_alert_time > alert_cooldown *)
CooldownPermits(current_time, last) == current_time - last > alert_cooldown

(* one timestamp shared by all workers *)
RecordPermitShared(lat, w, current_time) == [x \in DOMAIN lat |-> current_time]

(* camera_worker line 160: last_alert_time = current_time (a local of the worker) *)
RecordPermit(lat, w, current_time) == [lat EXCEPT ![w] = current_time]

(* camera_worker lines 145-157: the alert_data dict *)
MakeAlert(id, cam_id, severity) ==
    [id |-> id, cameraId |-> cam_id, severity |-> severity]

(* a queue that hands out the newest item first *)
QueuePutFront(q, item) == <<item>> \o q

(* camera_worker line 159: alert_queue.put(alert_data) *)
QueuePut(q, item) == Append(q, item)

(* an update that records the time of the alert and forgets the counter *)
CountAlertLastOnly(stats, cam_id, current_time) ==
    [stats EXCEPT ![cam_id].last_alert = current_time]

(* a counter update that touches the entry of every camera *)
CountAlertAll(stats, cam_id, current_time) ==
    [c \in DOMAIN stats |->
        [stats[c] EXCEPT !.alerts_sent = @ + 1, !.last_alert = current_time]]

(* camera_worker lines 161-162: alerts_sent += 1, last_alert = now *)
CountAlert(stats, cam_id, current_time) ==
    [stats EXCEPT ![cam_id].alerts_sent = @ + 1,
                  ![cam_id].last_alert = current_time]

(* __init__ lines 52-57 *)
InitStats == [frames_processed |-> 0, alerts_sent |-> 0, last_alert |-> None,
              status |-> "stopped"]

-----------------------------------------------------------------------------
(* Main thread: the menu, start_monitoring and the dashboard *)

(* configure_cameras: the operator enables or disables a camera at the menu *)
ConfigureCamera(c) ==
    /\ mpc = "menu"
    /\ cameras_enabled' = [cameras_enabled EXCEPT ![c] = ~@]
    /\ UNCHANGED <<running, session, mpc, health>>
    /\ UNCHANGED <<worker_vars, sender_vars, queue_vars, now, backend_vars, single_vars>>

(* a start_monitoring that sets running before the health request *)
StartMonitoringUnreachableRunning ==
    /\ mpc = "menu"
    /\ health' = 0
    /\ running' = TRUE
    /\ UNCHANGED <<cameras_enabled, session, mpc>>
    /\ UNCHANGED <<worker_vars, sender_vars, queue_vars, now, backend_vars, single_vars>>

(* start_monitoring, lines 240-250: the health request raised: return *)
StartMonitoringUnreachable ==
    /\ mpc = "menu"
    /\ health' = 0
    /\ UNCHANGED <<running, cameras_enabled, session, mpc>>
    /\ UNCHANGED <<worker_vars, sender_vars, queue_vars, now, backend_vars, single_vars>>

(* start_monitoring, lines 240-273: the health request returned (200 or not);
   running = True, the alert sender thread and one camera_worker thread per
   enabled camera are started; the main thread enters print_status_dashboard. *)
StartMonitoring(status_code) ==
    /\ mpc = "menu"
    /\ session < MaxSessions
    /\ running' = TRUE
    /\ session' = session + 1
    /\ dpc' = [dpc EXCEPT ![session + 1] = "loop"]
    /\ wpc' = [w \in Workers |->
                 IF w[1] = session + 1 /\ cameras_enabled[w[2]]
                   THEN "start" ELSE wpc[w]]
    /\ mpc' = "dashboard"
    /\ health' = status_code
    /\ UNCHANGED <<cameras_enabled, camera_stats, cap_open, frame_count,
                   last_alert_time, analysis, alert_data, posted>>
    /\ UNCHANGED <<queue_vars, now, backend_vars, single_vars>>

(* a dashboard that takes the pending alert off the queue to show it *)
PrintStatusDashboardDrain ==
    /\ mpc = "dashboard"
    /\ running
    /\ alert_queue' = IF alert_queue = <<>> THEN alert_queue ELSE Tail(alert_queue)
    /\ UNCHANGED <<next_id, main_vars, worker_vars, sender_vars, now, backend_vars, single_vars>>

(* a dashboard that returns when no camera_worker is left *)
PrintStatusDashboardAutoStop ==
    /\ mpc = "dashboard"
    /\ running
    /\ IF \A w \in Workers : wpc[w] \notin {"start", "loop", "read"}
         THEN /\ mpc' = "menu"
              /\ UNCHANGED <<running, cameras_enabled, session, health>>
              /\ UNCHANGED <<worker_vars, sender_vars, queue_vars, now, backend_vars, single_vars>>
         ELSE UNCHANGED vars

(* print_status_dashboard, lines 205-233: one pass of the loop; it reads
   camera_stats and alert_queue.qsize(), prints and sleeps 5 s. *)
PrintStatusDashboard ==
    /\ mpc = "dashboard"
    /\ running
    /\ UNCHANGED vars

(* start_monitoring, lines 278-280: KeyboardInterrupt: running = False *)
KeyboardInterrupt ==
    /\ mpc = "dashboard"
    /\ running' = FALSE
    /\ mpc' = "joining"
    /\ UNCHANGED <<cameras_enabled, session, health>>
    /\ UNCHANGED <<worker_vars, sender_vars, queue_vars, now, backend_vars, single_vars>>

(* start_monitoring, lines 283-286: thread.join(timeout=2) for every thread:
   each join returns when the thread has ended or after the timeout, so the
   method returns to the menu whether or not the threads have ended. *)
JoinThreads ==
    /\ mpc = "joining"
    /\ mpc' = "menu"
    /\ UNCHANGED <<running, cameras_enabled, session, health>>
    /\ UNCHANGED <<worker_vars, sender_vars, queue_vars, now, backend_vars, single_vars>>

(* the clock *)
Tick ==
    /\ now + TickStep <= MaxTime
    /\ now' = now + TickStep
    /\ UNCHANGED <<main_vars, worker_vars, sender_vars, queue_vars, single_vars, backend_vars>>

-----------------------------------------------------------------------------
(* camera_worker *)

(* lines 114-123: open the source *)
WorkerOpen(w, opened) ==
    /\ wpc[w] = "start"
    /\ IF opened
         THEN /\ camera_stats' = [camera_stats EXCEPT ![w[2]].status = "running"]
              /\ cap_open' = cap_open \cup {w}
              /\ frame_count' = [frame_count EXCEPT ![w] = 0]
              /\ last_alert_time' = [last_alert_time EXCEPT ![w] = 0]
              /\ wpc' = [wpc EXCEPT ![w] = "loop"]
         ELSE /\ camera_stats' = [camera_stats EXCEPT ![w[2]].status = "error"]
              /\ wpc' = [wpc EXCEPT ![w] = "failed"]
              /\ UNCHANGED <<cap_open, frame_count, last_alert_time>>
    /\ UNCHANGED <<analysis, main_vars, sender_vars, queue_vars, now, backend_vars, single_vars>>

(* a finally block that also clears the statistics of the camera *)
WorkerFinallyReset(w) ==
    /\ cap_open' = cap_open \ {w}
    /\ camera_stats' = [camera_stats EXCEPT ![w[2]] = InitStats]
    /\ wpc' = [wpc EXCEPT ![w] = "done"]

(* a finally block that marks every camera stopped *)
WorkerFinallyAll(w) ==
    /\ cap_open' = cap_open \ {w}
    /\ camera_stats' = [c \in Cams |-> [camera_stats[c] EXCEPT !.status = "stopped"]]
    /\ wpc' = [wpc EXCEPT ![w] = "done"]

(* lines 170-173: finally: cap.release(), status = 'stopped' *)
WorkerFinally(w) ==
    /\ cap_open' = cap_open \ {w}
    /\ camera_stats' = [camera_stats EXCEPT ![w[2]].status = "stopped"]
    /\ wpc' = [wpc EXCEPT ![w] = "done"]

(* line 127: while self.running *)
WorkerLoop(w) ==
    /\ wpc[w] = "loop"
    /\ IF running
         THEN /\ wpc' = [wpc EXCEPT ![w] = "read"]
              /\ UNCHANGED <<cap_open, camera_stats>>
         ELSE WorkerFinally(w)
    /\ UNCHANGED <<frame_count, last_alert_time, analysis>>
    /\ UNCHANGED <<main_vars, sender_vars, queue_vars, now, backend_vars, single_vars>>

(* lines 128-131: cap.read() returned ret = False: end of stream *)
WorkerEndOfStream(w) ==
    /\ wpc[w] = "read"
    /\ WorkerFinally(w)
    /\ UNCHANGED <<frame_count, last_alert_time, analysis>>
    /\ UNCHANGED <<main_vars, sender_vars, queue_vars, now, backend_vars, single_vars>>

(* a sampling test on the 0-based index of the frame *)
IsSampledZeroBased(fc) == (fc - 1) % ProcessEvery = 0

(* line 137: if frame_count % 30 == 0, frame_count being the 1-based index of
   the frame just read *)
IsSampled(fc) == fc % ProcessEvery = 0

(* lines 126-173: the loop is in try ... finally with no except clause: an
   exception raised in the body, by cap.read() before the frame is counted or
   by analyze_frame (the detector) on a frame that is analysed, after it is
   counted, runs the finally block and then leaves camera_worker: the thread
   ends with the exception. *)
WorkerException(w, counted) ==
    LET fc == frame_count[w] + 1
    IN
    /\ wpc[w] = "read"
    /\ counted => (frame_count[w] < MaxFrames /\ IsSampled(fc))
    /\ frame_count' = [frame_count EXCEPT ![w] = IF counted THEN fc ELSE @]
    /\ cap_open' = cap_open \ {w}
    /\ camera_stats' =
          [camera_stats EXCEPT ![w[2]].frames_processed = IF counted THEN fc ELSE @,
                               ![w[2]].status = "stopped"]
    /\ wpc' = [wpc EXCEPT ![w] = "raised"]
    /\ UNCHANGED <<last_alert_time, analysis>>
    /\ UNCHANGED <<main_vars, sender_vars, queue_vars, now, backend_vars, single_vars>>

(* lines 128-168: cap.read() returned a frame; the rest of the iteration *)
WorkerFrame(w, num_persons, brightness) ==
    LET cam_id == w[2]
        fc == frame_count[w] + 1
        result == analyze_frame(num_persons, brightness)
        current_time == now
        counted == [camera_stats EXCEPT ![cam_id].frames_processed = fc]
    IN
    /\ wpc[w] = "read"
    /\ frame_count[w] < MaxFrames
    /\ frame_count' = [frame_count EXCEPT ![w] = fc]
    /\ IF IsSampled(fc)
         THEN /\ analysis' = [analysis EXCEPT ![w] = result.severity]
              /\ IF SeverityAlerts(result.severity)
                    /\ CooldownPermits(current_time, last_alert_time[w])
                   THEN /\ alert_queue' =
                             QueuePut(alert_queue,
                                      MakeAlert(next_id, cam_id, result.severity))
                        /\ next_id' = next_id + 1
                        /\ last_alert_time' =
                             RecordPermit(last_alert_time, w, current_time)
                        /\ camera_stats' = CountAlert(counted, cam_id, current_time)
                   ELSE /\ camera_stats' = counted
                        /\ UNCHANGED <<alert_queue, next_id, last_alert_time>>
         ELSE /\ camera_stats' = counted
              /\ UNCHANGED <<analysis, alert_queue, next_id, last_alert_time>>
    /\ wpc' = [wpc EXCEPT ![w] = "loop"]
    /\ UNCHANGED <<cap_open, main_vars, sender_vars, now, backend_vars, single_vars>>

(* The frame a worker reads next is the first of a block of ProcessEvery
   frames, or the one that is analysed. *)
AtBlockEdge(w) == (frame_count[w] % ProcessEvery) \in {0, ProcessEvery - 1}

(* The frame before the next analysed one. *)
LastUnanalysed(fc) == fc + (ProcessEvery - 1 - (fc % ProcessEvery))

(* lines 127-134 and 168, repeated: the iterations that read the frames up to
   the one before the next analysed frame, taken in one step.  None of these
   frames is analysed (frame_count % 30 # 0), so each iteration only counts its
   frame; every loop test in between sees self.running = True. *)
WorkerSkipFrames(w) ==
    LET fc == LastUnanalysed(frame_count[w])
    IN
    /\ wpc[w] = "read"
    /\ running
    /\ frame_count[w] + 1 < fc
    /\ fc <= MaxFrames
    /\ frame_count' = [frame_count EXCEPT ![w] = fc]
    /\ camera_stats' = [camera_stats EXCEPT ![w[2]].frames_processed = fc]
    /\ wpc' = [wpc EXCEPT ![w] = "loop"]
    /\ UNCHANGED <<cap_open, last_alert_time, analysis>>
    /\ UNCHANGED <<main_vars, sender_vars, queue_vars, now, backend_vars, single_vars>>

-----------------------------------------------------------------------------
(* alert_sender_worker *)

(* a loop test that ignores the flag *)
SenderLoopForever(flag) == "get"

(* line 179: while self.running: into the body, or out of the loop *)
SenderLoopTest(flag) == IF flag THEN "get" ELSE "done"

(* line 179: while self.running *)
SenderLoop(s) ==
    /\ dpc[s] = "loop"
    /\ dpc' = [dpc EXCEPT ![s] = SenderLoopTest(running)]
    /\ UNCHANGED <<alert_data, posted>>
    /\ UNCHANGED <<main_vars, worker_vars, queue_vars, now, backend_vars, single_vars>>

(* line 182: alert_queue.get(timeout=1) returns the head of the queue *)
SenderGet(s) ==
    /\ dpc[s] = "get"
    /\ alert_queue # <<>>
    /\ alert_data' = [alert_data EXCEPT ![s] = Head(alert_queue)]
    /\ alert_queue' = Tail(alert_queue)
    /\ dpc' = [dpc EXCEPT ![s] = "post"]
    /\ UNCHANGED <<posted, next_id>>
    /\ UNCHANGED <<main_vars, worker_vars, now, backend_vars, single_vars>>

(* lines 182, 199-201: the get timed out: queue.Empty is caught, next iteration *)
SenderTimeout(s) ==
    /\ dpc[s] = "get"
    /\ alert_queue = <<>>
    /\ dpc' = [dpc EXCEPT ![s] = "loop"]
    /\ UNCHANGED <<alert_data, posted>>
    /\ UNCHANGED <<main_vars, worker_vars, queue_vars, now, backend_vars, single_vars>>

(* a sender that puts a failed alert back on the queue *)
QueueAfterPostRequeue(q, alert, outcome) ==
    IF outcome # HTTP_OK THEN Append(q, alert) ELSE q

(* lines 191-201: after the post the alert is logged and dropped whatever the
   outcome: the queue is left as it is *)
QueueAfterPost(q, alert, outcome) == q

(* a sender whose thread ends when requests.post raises *)
SenderAfterPostCrash(outcome) == IF outcome = 0 THEN "done" ELSE "loop"

(* lines 191-201: after the post, with a status or with an exception caught,
   the thread goes on with the next iteration *)
SenderAfterPost(outcome) == "loop"

(* lines 185-201: requests.post returned with a status, or raised *)
SenderPost(s, outcome) ==
    /\ dpc[s] = "post"
    /\ posted' = Append(posted, [id |-> alert_data[s].id,
                                 cameraId |-> alert_data[s].cameraId,
                                 status |-> outcome])
    /\ alert_queue' = QueueAfterPost(alert_queue, alert_data[s], outcome)
    /\ alert_data' = [alert_data EXCEPT ![s] = NoAlert]
    /\ dpc' = [dpc EXCEPT ![s] = SenderAfterPost(outcome)]
    /\ UNCHANGED <<next_id, main_vars, worker_vars, now, backend_vars, single_vars>>

-----------------------------------------------------------------------------
(* Specifications of MultiCameraMonitor *)

InitMulti ==
    /\ running = FALSE
    /\ alert_queue = <<>>
    /\ camera_stats = [c \in Cams |-> InitStats]
    /\ session = 0
    /\ mpc = "menu"
    /\ wpc = [w \in Workers |-> "none"]
    /\ cap_open = {}
    /\ frame_count = [w \in Workers |-> 0]
    /\ last_alert_time = [w \in Workers |-> 0]
    /\ analysis = [w \in Workers |-> "none"]
    /\ dpc = [s \in Sessions |-> "none"]
    /\ alert_data = [s \in Sessions |-> NoAlert]
    /\ next_id = 1
    /\ posted = <<>>
    /\ now = ClockStart
    /\ esm_last_alert_time = <<>>
    /\ esm_posted = <<>>
    /\ scene = EmptyScene
    /\ assessed = NoAssessment
    /\ person_tracks = <<>>
    /\ esm_source = "none"
    /\ signals = NoSignals
    /\ subject = NoSubject
    /\ track_sources = <<>>
    /\ health = None
    /\ alerts = <<>>
    /\ stream = [k \in Clients |-> NoStream]
    /\ emitted = [k \in Clients |-> <<>>]

(* any configuration load_configuration or configure_cameras can leave *)
Init ==
    /\ InitMulti
    /\ cameras_enabled \in [Cams -> BOOLEAN]

(* __init__ lines 28-50: cam1 enabled, the others disabled *)
InitDefault ==
    /\ InitMulti
    /\ cameras_enabled = [c \in Cams |-> c = "cam1"]

(* One monitoring session, any configuration.  Frames that are not analysed
   are read in runs (WorkerSkipFrames). *)
Next ==
    \/ StartMonitoringUnreachable
    \/ \E h \in {HTTP_OK, 500} : session = 0 /\ StartMonitoring(h)
    \/ PrintStatusDashboard
    \/ KeyboardInterrupt
    \/ Tick
    \/ \E w \in Workers, opened \in BOOLEAN : WorkerOpen(w, opened)
    \/ \E w \in Workers : WorkerLoop(w)
    \/ \E w \in Workers : WorkerEndOfStream(w)
    \/ \E w \in Workers, f \in Frames : AtBlockEdge(w) /\ WorkerFrame(w, f[1], f[2])
    \/ \E w \in Workers : WorkerSkipFrames(w)
    \/ \E s \in Sessions : SenderLoop(s)
    \/ \E s \in Sessions : SenderGet(s)
    \/ \E s \in Sessions : SenderTimeout(s)
    \/ \E s \in Sessions, o \in Outcomes : SenderPost(s, o)

Spec == Init /\ [][Next]_vars

(* One session of the default configuration; every iteration of the worker's
   loop is a step, and every kind of frame occurs. *)
NextFeed ==
    \/ \E h \in {HTTP_OK, 500} : session = 0 /\ StartMonitoring(h)
    \/ PrintStatusDashboard
    \/ KeyboardInterrupt
    \/ Tick
    \/ \E w \in Workers, opened \in BOOLEAN : WorkerOpen(w, opened)
    \/ \E w \in Workers : WorkerLoop(w)
    \/ \E w \in Workers : WorkerEndOfStream(w)
    \/ \E w \in Workers, f \in AllFrames : WorkerFrame(w, f[1], f[2])
    \/ \E w \in Workers, counted \in BOOLEAN : WorkerException(w, counted)
    \/ \E s \in Sessions : SenderLoop(s)
    \/ \E s \in Sessions : SenderGet(s)
    \/ \E s \in Sessions : SenderTimeout(s)
    \/ \E s \in Sessions, o \in Outcomes : SenderPost(s, o)

SpecFeed == InitDefault /\ [][NextFeed]_vars

(* The alert sender is a thread of its own: the scheduler runs it, the get
   returns within its timeout of 1 s and the post within its timeout of 5 s. *)
SenderStep ==
    \E s \in Sessions :
        \/ SenderLoop(s)
        \/ SenderGet(s)
        \/ SenderTimeout(s)
        \/ \E o \in Outcomes : SenderPost(s, o)

SpecFeedFair == SpecFeed /\ WF_vars(SenderStep)

(* The end-to-end scenario: one feed, every frame holds one person at
   brightness 40, the backend answers 200. *)
NextE2E ==
    \/ \E h \in {HTTP_OK} : session = 0 /\ StartMonitoring(h)
    \/ PrintStatusDashboard
    \/ KeyboardInterrupt
    \/ Tick
    \/ \E w \in Workers : WorkerOpen(w, TRUE)
    \/ \E w \in Workers : WorkerLoop(w)
    \/ \E w \in Workers : WorkerEndOfStream(w)
    \/ \E w \in Workers : WorkerFrame(w, 1, 40)
    \/ \E s \in Sessions : SenderLoop(s)
    \/ \E s \in Sessions : SenderGet(s)
    \/ \E s \in Sessions : SenderTimeout(s)
    \/ \E s \in Sessions : SenderPost(s, HTTP_OK)

SpecE2E == InitDefault /\ [][NextE2E]_vars

(* The default configuration over MaxSessions calls of start_monitoring from
   the menu. *)
NextRestart ==
    \/ StartMonitoringUnreachable
    \/ \E h \in {HTTP_OK, 500} : StartMonitoring(h)
    \/ PrintStatusDashboard
    \/ KeyboardInterrupt
    \/ JoinThreads
    \/ Tick
    \/ \E w \in Workers, opened \in BOOLEAN : WorkerOpen(w, opened)
    \/ \E w \in Workers : WorkerLoop(w)
    \/ \E w \in Workers : WorkerEndOfStream(w)
    \/ \E w \in Workers, f \in Frames :
          /\ AtBlockEdge(w)
          /\ frame_count[w] < MaxFramesRestart
          /\ WorkerFrame(w, f[1], f[2])
    \/ \E w \in Workers :
          /\ frame_count[w] < MaxFramesRestart
          /\ WorkerSkipFrames(w)
    \/ \E s \in Sessions : SenderLoop(s)
    \/ \E s \in Sessions : SenderGet(s)
    \/ \E s \in Sessions : SenderTimeout(s)
    \/ \E s \in Sessions, o \in Outcomes : SenderPost(s, o)

SpecRestart == InitDefault /\ [][NextRestart]_vars

-----------------------------------------------------------------------------
(* EnhancedSafetyMonitor.send_alert (enhanced_safety_model.py lines 275-321)
   and SafetyMonitor.send_alert (camera_monitor.py lines 90-127) *)

(* lines 280-282 (93-95): the cooldown check: True when send_alert returns
   False at once *)
InCooldown(lat, camera_id, current_time) ==
    /\ camera_id \in DOMAIN lat
    /\ current_time - lat[camera_id] < alert_cooldown

(* line 312 (122): self.last_alert_time[camera_id] = current_time *)
SetLastAlertTime(lat, camera_id, current_time) ==
    [c \in DOMAIN lat \cup {camera_id} |->
        IF c = camera_id THEN current_time ELSE lat[c]]

(* a send_alert that writes the timestamp whatever the request returned *)
LastAlertTimeAnyOutcome(lat, camera_id, current_time, outcome) ==
    SetLastAlertTime(lat, camera_id, current_time)

(* lines 311-319 (121-127): the timestamp is written when the status is 200 *)
LastAlertTimeAfterPost(lat, camera_id, current_time, outcome) ==
    IF outcome = HTTP_OK
      THEN SetLastAlertTime(lat, camera_id, current_time)
      ELSE lat

(* send_alert(camera_id, analysis) with analysis['severity'] = severity; the
   request ends with `outcome` *)
SendAlert(camera_id, severity, outcome) ==
    LET current_time == now
    IN
    /\ Len(esm_posted) < MaxPosts
    /\ IF InCooldown(esm_last_alert_time, camera_id, current_time)
         THEN UNCHANGED single_vars
         ELSE IF SeverityAlerts(severity)
           THEN /\ esm_posted' = Append(esm_posted,
                                        [cameraId |-> camera_id,
                                         severity |-> severity,
                                         time     |-> current_time,
                                         status   |-> outcome])
                /\ esm_last_alert_time' =
                     LastAlertTimeAfterPost(esm_last_alert_time, camera_id,
                                            current_time, outcome)
                /\ UNCHANGED <<risk_vars, track_vars>>
           ELSE UNCHANGED single_vars
    /\ UNCHANGED <<main_vars, worker_vars, sender_vars, queue_vars, now, backend_vars>>

(* monitor_camera lines 440-446: key 'a': the cooldown of the source is reset
   (last_alert_time[source] = 0) and the alert is sent *)
ForceAlert(camera_id, severity, outcome) ==
    LET current_time == now
        reset == SetLastAlertTime(esm_last_alert_time, camera_id, 0)
    IN
    /\ Len(esm_posted) < MaxPosts
    /\ IF InCooldown(reset, camera_id, current_time)
         THEN /\ esm_last_alert_time' = reset
              /\ UNCHANGED <<esm_posted, risk_vars, track_vars>>
         ELSE IF SeverityAlerts(severity)
           THEN /\ esm_posted' = Append(esm_posted,
                                        [cameraId |-> camera_id,
                                         severity |-> severity,
                                         time     |-> current_time,
                                         status   |-> outcome])
                /\ esm_last_alert_time' =
                     LastAlertTimeAfterPost(reset, camera_id, current_time, outcome)
                /\ UNCHANGED <<risk_vars, track_vars>>
           ELSE /\ esm_last_alert_time' = reset
                /\ UNCHANGED <<esm_posted, risk_vars, track_vars>>
    /\ UNCHANGED <<main_vars, worker_vars, sender_vars, queue_vars, now, backend_vars>>

NextSingle ==
    \/ Tick
    \/ \E c \in Sources, sev \in {"CRITICAL", "LOW"}, o \in Outcomes :
          SendAlert(c, sev, o)
    \/ \E c \in Sources, sev \in {"CRITICAL", "LOW"}, o \in Outcomes :
          ForceAlert(c, sev, o)

SpecSingle == InitDefault /\ [][NextSingle]_vars

-----------------------------------------------------------------------------
(* The risk assessment: EnhancedSafetyMonitor.analyze_scene_advanced
   (enhanced_safety_model.py lines 143-273) and
   MultiCameraMonitor.analyze_frame *)

(* lines 101-104: detect_running *)
detect_running(speed) == speed > RunSpeedAbove

(* thresholds that belong to the bucket above them *)
analyze_crowd_density_incl(num_persons, density) ==
    IF num_persons = 0 THEN "empty"
    ELSE IF density >= VeryCrowdedAbove THEN "very_crowded"
    ELSE IF density >= CrowdedAbove THEN "crowded"
    ELSE IF density >= ModerateAbove THEN "moderate"
    ELSE "sparse"

(* lines 106-122: analyze_crowd_density; the ratio is in hundredths *)
analyze_crowd_density(num_persons, density) ==
    IF num_persons = 0 THEN "empty"
    ELSE IF density > VeryCrowdedAbove THEN "very_crowded"
    ELSE IF density > CrowdedAbove THEN "crowded"
    ELSE IF density > ModerateAbove THEN "moderate"
    ELSE "sparse"

Assessment(severity, alert_type) == [severity |-> severity, alert_type |-> alert_type]

(* the last branches with the person count tested before the crowd level *)
CrowdAnalysisCountFirst(num_persons, crowd_level) ==
    IF num_persons >= 3
      THEN Assessment("LOW", "Multiple Persons")
    ELSE IF crowd_level = "very_crowded"
      THEN Assessment("MEDIUM", "Very Crowded Area")
    ELSE Assessment("LOW", "Normal Activity")

(* lines 241-252, and the initial values of lines 181-184 when no branch is
   taken *)
CrowdAnalysis(num_persons, crowd_level) ==
    IF crowd_level = "very_crowded"
      THEN Assessment("MEDIUM", "Very Crowded Area")
    ELSE IF num_persons >= 3
      THEN Assessment("LOW", "Multiple Persons")
    ELSE Assessment("LOW", "Normal Activity")

(* lines 170-252: the if / elif chain of analyze_scene_advanced *)
analyze_scene_advanced(s) ==
    LET num_persons == s.num_persons
        is_dark == s.brightness < DarkBelow
        is_very_dark == s.brightness < VeryDarkBelow
        crowd_level == analyze_crowd_density(num_persons, s.density)
    IN
    IF num_persons = 1 /\ is_very_dark
      THEN Assessment("CRITICAL", "Lone Woman - Very Dark Area")
    ELSE IF num_persons = 1 /\ is_dark
      THEN IF s.loitering
             THEN Assessment("CRITICAL", "Loitering Detected - Dark Area")
             ELSE Assessment("HIGH", "Lone Woman - Dark Area")
    ELSE IF num_persons = 2
      THEN IF s.in_risk_zone /\ is_dark
             THEN Assessment("CRITICAL", "Multiple Persons in Risk Zone")
           ELSE IF is_dark
             THEN Assessment("HIGH", "Two Persons - Dark Area")
           ELSE Assessment("MEDIUM", "Two Persons Detected")
    ELSE IF num_persons = 1
      THEN IF detect_running(s.speed)
             THEN Assessment("HIGH", "Running Person Detected")
             ELSE Assessment("MEDIUM", "Lone Woman Detected")
    ELSE CrowdAnalysis(num_persons, crowd_level)

(* monitor_camera lines 391-406: a frame is read and the detector run on it;
   one frame is followed per behaviour *)
PresentScene(s) ==
    /\ scene = EmptyScene
    /\ assessed = NoAssessment
    /\ scene' = s
    /\ assessed' = NoAssessment
    /\ UNCHANGED <<esm_last_alert_time, esm_posted, track_vars>>
    /\ UNCHANGED <<main_vars, worker_vars, sender_vars, queue_vars, now, backend_vars>>

(* monitor_camera line 409: analysis = self.analyze_scene_advanced(...) *)
AnalyzeSceneAdvanced ==
    LET result == analyze_scene_advanced(scene)
    IN
    /\ assessed' = [by |-> "analyze_scene_advanced",
                    severity |-> result.severity,
                    alert_type |-> result.alert_type,
                    crowd_level |-> analyze_crowd_density(scene.num_persons,
                                                          scene.density)]
    /\ UNCHANGED <<scene, esm_last_alert_time, esm_posted, track_vars>>
    /\ UNCHANGED <<main_vars, worker_vars, sender_vars, queue_vars, now, backend_vars>>

(* camera_worker line 138: analysis = self.analyze_frame(frame, cam_id) *)
AnalyzeFrame ==
    LET result == analyze_frame(scene.num_persons, scene.brightness)
    IN
    /\ assessed' = [by |-> "analyze_frame",
                    severity |-> result.severity,
                    alert_type |-> result.alert_type]
    /\ UNCHANGED <<scene, esm_last_alert_time, esm_posted, track_vars>>
    /\ UNCHANGED <<main_vars, worker_vars, sender_vars, queue_vars, now, backend_vars>>

(* SafetyMonitor.analyze_scene (camera_monitor.py lines 35-88): the persons
   are split into women and men by the aspect ratio of their boxes (lines
   47-53); the decision logic of lines 60-77 *)
analyze_scene(women, men, brightness) ==
    LET is_dark == brightness < SceneDarkBelow
        sev_type ==
            IF women = 1 /\ (men = 0 /\ is_dark)
              THEN <<"HIGH", "Lone Woman - Dark Area">>
            ELSE IF women = 1 /\ men >= 2
              THEN <<"MAY_RISK", "Woman Surrounded by Men">>
            ELSE IF 1 <= women /\ women <= 2 /\ men >= 3
              THEN <<"MAY_RISK", "Few Women in Male Group">>
            ELSE IF women = 1 /\ ~is_dark
              THEN <<"MEDIUM", "Lone Woman">>
            ELSE <<"LOW", "Normal Activity">>
    IN  [men_count   |-> men,
         women_count |-> women,
         total       |-> women + men,
         severity    |-> sev_type[1],
         alert_type  |-> sev_type[2],
         brightness  |-> brightness,
         is_dark     |-> is_dark]

(* camera_monitor.py line 146: analysis = self.analyze_scene(frame, results);
   `women` of the persons of the scene have a box taller than 2.2 times its
   width *)
AnalyzeScene(women) ==
    LET result == analyze_scene(women, scene.num_persons - women, scene.brightness)
    IN
    /\ women \in 0..scene.num_persons
    /\ assessed' = [by |-> "analyze_scene",
                    severity |-> result.severity,
                    alert_type |-> result.alert_type,
                    women_count |-> result.women_count,
                    men_count |-> result.men_count]
    /\ UNCHANGED <<scene, esm_last_alert_time, esm_posted, track_vars>>
    /\ UNCHANGED <<main_vars, worker_vars, sender_vars, queue_vars, now, backend_vars>>

NextRisk ==
    \/ \E s \in Scenes : PresentScene(s)
    \/ AnalyzeSceneAdvanced
    \/ AnalyzeFrame
    \/ \E women \in 0..MaxPersons : AnalyzeScene(women)

SpecRisk == InitDefault /\ [][NextRisk]_vars

-----------------------------------------------------------------------------
(* The backend: backend/main.py *)

(* lines 11-14: POST /send-alert: alerts.append({"message": message}) *)
send_alert ==
    /\ Len(alerts) < MaxAlerts
    /\ alerts' = Append(alerts, Len(alerts) + 1)
    /\ UNCHANGED <<stream, emitted>>
    /\ UNCHANGED <<main_vars, worker_vars, sender_vars, queue_vars, now, single_vars>>

(* lines 16-26: GET /alerts/stream: a new event_generator, last_index = 0 *)
alert_stream(k) ==
    /\ stream[k].pc = "closed"
    /\ stream' = [stream EXCEPT ![k] = [pc |-> "test", last_index |-> 0,
                                        batch |-> <<>>]]
    /\ UNCHANGED <<alerts, emitted>>
    /\ UNCHANGED <<main_vars, worker_vars, sender_vars, queue_vars, now, single_vars>>

(* line 22: alerts[last_index:], a copy of the list from last_index on *)
SliceFrom(list, last_index) == SubSeq(list, last_index + 1, Len(list))

(* lines 20-22: `if len(alerts) > last_index`: the slice is taken and the
   for loop begins; otherwise time.sleep(1) *)
GeneratorTest(k) ==
    /\ stream[k].pc = "test"
    /\ stream' = IF Len(alerts) > stream[k].last_index
                   THEN [stream EXCEPT ![k].pc = "for",
                                       ![k].batch = SliceFrom(alerts, stream[k].last_index)]
                   ELSE [stream EXCEPT ![k].pc = "sleep"]
    /\ UNCHANGED <<alerts, emitted>>
    /\ UNCHANGED <<main_vars, worker_vars, sender_vars, queue_vars, now, single_vars>>

(* line 23: yield of the next alert of the slice: the generator is suspended
   and the event is sent to the client *)
GeneratorYield(k) ==
    /\ stream[k].pc = "for"
    /\ stream[k].batch # <<>>
    /\ emitted' = [emitted EXCEPT ![k] = Append(@, Head(stream[k].batch))]
    /\ stream' = [stream EXCEPT ![k].batch = Tail(@)]
    /\ UNCHANGED alerts
    /\ UNCHANGED <<main_vars, worker_vars, sender_vars, queue_vars, now, single_vars>>

(* line 24: the slice is exhausted: last_index = len(alerts) *)
GeneratorAdvance(k) ==
    /\ stream[k].pc = "for"
    /\ stream[k].batch = <<>>
    /\ stream' = [stream EXCEPT ![k].pc = "sleep",
                                ![k].last_index = Len(alerts)]
    /\ UNCHANGED <<alerts, emitted>>
    /\ UNCHANGED <<main_vars, worker_vars, sender_vars, queue_vars, now, single_vars>>

(* line 25: time.sleep(1) returns; the while loop tests again *)
GeneratorSleep(k) ==
    /\ stream[k].pc = "sleep"
    /\ stream' = [stream EXCEPT ![k].pc = "test"]
    /\ UNCHANGED <<alerts, emitted>>
    /\ UNCHANGED <<main_vars, worker_vars, sender_vars, queue_vars, now, single_vars>>

NextBackend ==
    \/ send_alert
    \/ \E k \in Clients : alert_stream(k)
    \/ \E k \in Clients : GeneratorTest(k)
    \/ \E k \in Clients : GeneratorYield(k)
    \/ \E k \in Clients : GeneratorAdvance(k)
    \/ \E k \in Clients : GeneratorSleep(k)

SpecBackend == InitDefault /\ [][NextBackend]_vars

-----------------------------------------------------------------------------
(* The tracker of EnhancedSafetyMonitor: self.person_tracks, updated by
   analyze_scene_advanced (enhanced_safety_model.py lines 162-168) and read by
   calculate_speed and detect_loitering.
     SpecTrack       one monitor_camera call, up to MaxUpdates updates
     SpecTrackFeeds  up to MaxMonitorCalls calls on one monitor *)

(* lines 29-34: the default factory of person_tracks *)
NoTrack == [positions |-> <<>>, timestamps |-> <<>>, first_seen |-> None,
            last_alerted |-> None]

(* self.person_tracks[track_id]: a missing key reads as a new track *)
Track(tracks, track_id) ==
    IF track_id \in DOMAIN tracks THEN tracks[track_id] ELSE NoTrack

SetTrack(tracks, track_id, track) ==
    [k \in DOMAIN tracks \cup {track_id} |->
        IF k = track_id THEN track ELSE tracks[k]]

(* a deque without maxlen *)
DequeAppendUnbounded(d, x) == Append(d, x)

(* lines 30-31, 167-168: deque(maxlen=30).append(x): when the deque is full
   the item at the other end, the oldest, is discarded *)
DequeAppend(d, x) ==
    IF Len(d) < TrackMaxLen THEN Append(d, x) ELSE Append(Tail(d), x)

(* math.sqrt, exact on the perfect squares that occur: the largest r in
   lo..hi with r * r <= n, found by bisection *)
RECURSIVE SqrtIn(_, _, _)
SqrtIn(n, lo, hi) ==
    IF lo = hi THEN lo
    ELSE LET mid == (lo + hi + 1) \div 2
         IN  IF mid * mid <= n THEN SqrtIn(n, mid, hi) ELSE SqrtIn(n, lo, mid - 1)

Sqrt(n) == SqrtIn(n, 0, 255)

(* line 70: the distance between two positions *)
Distance(p, q) ==
    Sqrt((q[1] - p[1]) * (q[1] - p[1]) + (q[2] - p[2]) * (q[2] - p[2]))

(* lines 66-71: total_distance over positions[0 .. i] (1-based: 1 .. i) *)
RECURSIVE TotalDistance(_, _)
TotalDistance(positions, i) ==
    IF i < 2 THEN 0
    ELSE TotalDistance(positions, i - 1) + Distance(positions[i - 1], positions[i])

(* the distance from the first position to the last *)
NetDistance(positions, i) ==
    IF i < 2 THEN 0 ELSE Distance(positions[1], positions[i])

(* a speed in pixels per second, as the exact quotient num / den *)
Speed(num, den) == [num |-> num, den |-> den]
ZeroSpeed == Speed(0, 1)

(* a speed from the net displacement instead of the path *)
calculate_speed_net(positions, timestamps) ==
    IF Len(positions) < 2 THEN ZeroSpeed
    ELSE LET total_distance == NetDistance(positions, Len(positions))
             time_diff == timestamps[Len(timestamps)] - timestamps[1]
         IN  IF time_diff > 0 THEN Speed(total_distance, time_diff) ELSE ZeroSpeed

(* lines 61-76: calculate_speed *)
calculate_speed(positions, timestamps) ==
    IF Len(positions) < 2 THEN ZeroSpeed
    ELSE LET total_distance == TotalDistance(positions, Len(positions))
             time_diff == timestamps[Len(timestamps)] - timestamps[1]
         IN  IF time_diff > 0 THEN Speed(total_distance, time_diff) ELSE ZeroSpeed

Max(S) == CHOOSE m \in S : \A x \in S : x <= m
Min(S) == CHOOSE m \in S : \A x \in S : m <= x

(* lines 90-93: area_radius of a non-empty list of positions *)
AreaRadius(positions) ==
    LET x_coords == {positions[i][1] : i \in DOMAIN positions}
        y_coords == {positions[i][2] : i \in DOMAIN positions}
        dx == Max(x_coords) - Min(x_coords)
        dy == Max(y_coords) - Min(y_coords)
    IN  IF dx >= dy THEN dx ELSE dy

(* a radius that looks at the x coordinates only *)
detect_loitering_x(track_data, current_time) ==
    IF track_data.first_seen = None THEN FALSE
    ELSE LET time_in_area == current_time - track_data.first_seen
             positions == track_data.positions
             x_coords == {positions[i][1] : i \in DOMAIN positions}
         IN  /\ time_in_area > LoiterSeconds
             /\ Len(positions) > LoiterMinSamples
             /\ Max(x_coords) - Min(x_coords) < LoiterRadius

(* lines 78-99: detect_loitering *)
detect_loitering(track_data, current_time) ==
    IF track_data.first_seen = None THEN FALSE
    ELSE LET time_in_area == current_time - track_data.first_seen
             positions == track_data.positions
         IN  /\ time_in_area > LoiterSeconds
             /\ Len(positions) > LoiterMinSamples
             /\ AreaRadius(positions) < LoiterRadius

(* lines 164-168: the update of one track with the centre of a person box *)
UpdateTrack(track, center, current_time) ==
    [track EXCEPT
        !.first_seen = IF @ = None THEN current_time ELSE @,
        !.positions = DequeAppend(@, center),
        !.timestamps = DequeAppend(@, current_time)]

(* main lines 503-511 and monitor_camera lines 374-387: the operator chooses
   a source at the menu and monitor_camera(source) opens it; the camera then
   watches a person who walks trajectory `motion`. *)
MonitorCamera(source, motion) ==
    /\ esm_source = "none"
    /\ esm_source' = source
    /\ subject' = [subject EXCEPT !.motion = motion, !.step = 0,
                                  !.calls = @ + 1]
    /\ UNCHANGED <<person_tracks, signals, track_sources>>
    /\ UNCHANGED <<esm_last_alert_time, esm_posted, risk_vars>>
    /\ UNCHANGED <<main_vars, worker_vars, sender_vars, queue_vars, now, backend_vars>>

(* monitor_camera lines 392-394, 433-435, 448-451: the video ends or the
   operator presses 'q': the loop is left and main shows the menu again *)
QuitMonitor ==
    /\ esm_source # "none"
    /\ esm_source' = "none"
    /\ UNCHANGED <<person_tracks, signals, subject, track_sources>>
    /\ UNCHANGED <<esm_last_alert_time, esm_posted, risk_vars>>
    /\ UNCHANGED <<main_vars, worker_vars, sender_vars, queue_vars, now, backend_vars>>

(* time passes between two frames *)
Elapse(d) ==
    /\ now + d - ClockStart \in Elapsed
    /\ now' = now + d
    /\ UNCHANGED <<main_vars, worker_vars, sender_vars, queue_vars, single_vars, backend_vars>>

(* line 163: track_id = f"person_{i}", i the index of the box in
   detection.boxes *)
TrackId(i) == IF i = 0 THEN "person_0" ELSE "person_1"

(* analyze_scene_advanced on an analysed frame of monitor_camera(esm_source)
   that shows num_persons (0 or 1) person boxes, the person being box i of
   detection.boxes (a box before it is of another class, or of a confidence
   of 0.5 or less): lines 146-168 update person_tracks[f"person_{i}"], and
   the chain of lines 188-248 reads person_tracks['person_0'] (lines 197,
   234; a read of a missing key of the defaultdict creates the track) and
   computes its loitering signal when one person is in a dark but not very
   dark frame, and its speed when one person is in a lit frame. *)
AnalyzeSceneBoxes(num_persons, i, brightness) ==
    LET current_time == now
        track_id == TrackId(i)
        center == Position(subject.motion, subject.step)
        tracks ==
            IF num_persons = 1
              THEN SetTrack(person_tracks, track_id,
                            UpdateTrack(Track(person_tracks, track_id),
                                        center, current_time))
              ELSE person_tracks
        is_dark == brightness < DarkBelow
        is_very_dark == brightness < VeryDarkBelow
        chain_reads == num_persons = 1 /\ ~is_very_dark
        track_data == Track(person_tracks', "person_0")   \* read after the update
    IN
    /\ esm_source # "none"
    /\ num_persons = 1 => subject.updates < MaxUpdates
    /\ person_tracks' = IF chain_reads /\ "person_0" \notin DOMAIN tracks
                          THEN SetTrack(tracks, "person_0", NoTrack)
                          ELSE tracks
    /\ subject' = IF num_persons = 1
                    THEN [subject EXCEPT !.step = @ + 1, !.updates = @ + 1]
                    ELSE subject
    /\ track_sources' =
          IF num_persons = 1
            THEN LET h == IF track_id \in DOMAIN track_sources
                            THEN track_sources[track_id]
                            ELSE [samples |-> <<>>, first_seen |-> "none"]
                 IN  SetTrack(track_sources, track_id,
                        [samples |-> DequeAppend(h.samples, esm_source),
                         first_seen |-> IF h.first_seen = "none"
                                          THEN esm_source ELSE h.first_seen])
            ELSE track_sources
    /\ signals' =
          IF num_persons = 1 /\ is_very_dark
            THEN NoSignals
          ELSE IF num_persons = 1 /\ is_dark
            THEN [computed |-> "loitering", at |-> current_time,
                  updated |-> track_id,
                  value |-> detect_loitering(track_data, current_time)]
          ELSE IF num_persons = 1
            THEN [computed |-> "speed", at |-> current_time,
                  updated |-> track_id,
                  value |-> calculate_speed(track_data.positions,
                                            track_data.timestamps)]
          ELSE NoSignals
    /\ UNCHANGED <<esm_source, esm_last_alert_time, esm_posted, risk_vars>>
    /\ UNCHANGED <<main_vars, worker_vars, sender_vars, queue_vars, now, backend_vars>>

(* the frames in which the person is the first box of detection.boxes *)
AnalyzeSceneTracked(num_persons, brightness) ==
    AnalyzeSceneBoxes(num_persons, 0, brightness)

(* One monitor_camera call, on the webcam, followed while it lasts *)
NextTrack ==
    \/ \E m \in Motions : subject.calls = 0 /\ MonitorCamera("webcam", m)
    \/ \E d \in Waits : Elapse(d)
    \/ \E n \in {0, 1}, b \in {40, 60, 90} : AnalyzeSceneTracked(n, b)

SpecTrack == InitDefault /\ [][NextTrack]_vars

(* Several monitor_camera calls from the menu of main, on the one monitor
   created in main line 490 *)
NextTrackFeeds ==
    \/ \E src \in Sources, m \in Motions :
          subject.calls < MaxMonitorCalls /\ MonitorCamera(src, m)
    \/ QuitMonitor
    \/ \E d \in Waits : Elapse(d)
    \/ \E n \in {0, 1}, b \in {40, 60, 90} :
          /\ subject.updates < MaxUpdatesFeeds
          /\ AnalyzeSceneTracked(n, b)

SpecTrackFeeds == InitDefault /\ [][NextTrackFeeds]_vars

(* One monitor_camera call on the webcam; the detector also returns boxes
   that are not persons, so the person is box 0 or box 1 *)
NextTrackBoxes ==
    \/ \E m \in Motions : subject.calls = 0 /\ MonitorCamera("webcam", m)
    \/ \E d \in Waits : Elapse(d)
    \/ \E n \in {0, 1}, i \in BoxIndexes, b \in {40, 60, 90} :
          /\ subject.updates < MaxUpdatesBoxes
          /\ AnalyzeSceneBoxes(n, i, b)

SpecTrackBoxes == InitDefault /\ [][NextTrackBoxes]_vars

-----------------------------------------------------------------------------
(* Properties *)

(* C1: the cooldown gate never lets two alerts of the same feed through less
   than alert_cooldown apart, the window counted from the time the previous
   alert passed the gate, whether or not that alert was dispatched with
   success.  Every request of send_alert is an alert that passed the gate. *)
C1_CooldownSpacing ==
    \A i, j \in DOMAIN esm_posted :
        (i < j /\ esm_posted[i].cameraId = esm_posted[j].cameraId)
            => esm_posted[j].time - esm_posted[i].time >= alert_cooldown

(* Steps, seen from outside *)

(* camera_worker thread w takes a step *)
WorkerStep(w) == wpc[w] # "none" /\ wpc'[w] # wpc[w]

(* camera_worker thread w analyses a frame in this step *)
AnalysedBy(w) ==
    /\ frame_count'[w] = frame_count[w] + 1
    /\ frame_count'[w] % ProcessEvery = 0

(* an alert is put on the queue in this step *)
Enqueued == next_id' = next_id + 1

(* C2: a permit request of a feed at time now succeeds if and only if the feed
   has no permitted event yet (last_alert_time = 0) or
   now - lastPermitted >= cooldownWindow; a request exactly cooldownWindow
   after the last permit succeeds. *)
C2_PermitIff ==
    [][\A w \in Workers :
         (AnalysedBy(w) /\ SeverityAlerts(analysis'[w]))
            => (Enqueued <=> (\/ last_alert_time[w] = 0
                              \/ now - last_alert_time[w] >= alert_cooldown))]_vars

(* C3: cooldown decisions of different feeds do not interfere: a step of the
   worker of feed A changes neither the recorded timestamp of feed B nor the
   outcome of a permit request of feed B. *)
C3_NoInterference ==
    [][\A a, b \in Workers :
         (a[2] # b[2] /\ WorkerStep(a))
            => /\ last_alert_time'[b] = last_alert_time[b]
               /\ camera_stats'[b[2]].last_alert = camera_stats[b[2]].last_alert
               /\ CooldownPermits(now', last_alert_time'[b])
                     <=> CooldownPermits(now, last_alert_time[b])]_vars

(* two feeds hold different recorded timestamps *)
C3_Witness ==
    \E a, b \in Workers :
        /\ a[2] # b[2]
        /\ last_alert_time[a] > 0
        /\ last_alert_time[b] > last_alert_time[a]

(* The alerts taken off the queue, oldest first, then those on it *)
InFlight == {s \in Sessions : dpc[s] = "post"}
Dequeued ==
    [i \in 1..Len(posted) |-> [id |-> posted[i].id, cameraId |-> posted[i].cameraId]]
      \o (IF dpc[1] = "post"
            THEN <<[id |-> alert_data[1].id, cameraId |-> alert_data[1].cameraId]>>
            ELSE <<>>)
Handled ==
    Dequeued \o [i \in 1..Len(alert_queue) |->
                    [id |-> alert_queue[i].id, cameraId |-> alert_queue[i].cameraId]]

(* C4: every alert put on the queue by the camera workers is taken off it
   exactly once, none is lost and none is duplicated, and the alerts of one
   producer leave the queue in the order that producer put them. *)
C4_QueueExactlyOnceInOrder ==
    /\ Len(Handled) = next_id - 1
    /\ {Handled[i].id : i \in DOMAIN Handled} = 1..(next_id - 1)
    /\ \A i, j \in DOMAIN Handled :
          (i < j /\ Handled[i].cameraId = Handled[j].cameraId)
             => Handled[i].id < Handled[j].id

(* two producers had two alerts each taken off the queue *)
C4_Witness ==
    /\ Len(posted) = 4
    /\ alert_queue = <<>>
    /\ \A c \in Cams : Cardinality({i \in DOMAIN posted : posted[i].cameraId = c}) = 2

(* C5: dispatch is at most once: an alert is posted at most one time, and one
   whose post failed (a status other than 200, or an exception) is dropped: it
   is not on the queue again and not held by the sender. *)
C5_AtMostOnce ==
    /\ \A i, j \in DOMAIN posted : i # j => posted[i].id # posted[j].id
    /\ \A i \in DOMAIN posted :
          /\ \A k \in DOMAIN alert_queue : alert_queue[k].id # posted[i].id
          /\ \A s \in InFlight : alert_data[s].id # posted[i].id

(* a post failed with a status, another with an exception *)
C5_Witness ==
    /\ \E i \in DOMAIN posted : posted[i].status = 0
    /\ \E i \in DOMAIN posted : posted[i].status = 500

NoPostSucceeded == \A i \in DOMAIN posted : posted[i].status # HTTP_OK

(* C6: with a backend that fails every post, alerts_sent of every feed does
   not grow. *)
C6_NoGrowthOnFailure ==
    (posted # <<>> /\ NoPostSucceeded)
        => \A c \in Cams : camera_stats[c].alerts_sent = 0

AlertIds == 1..(MaxFrames \div ProcessEvery)
SomePostFailed == \E i \in DOMAIN posted : posted[i].status # HTTP_OK
OnQueue(id) == \E k \in DOMAIN alert_queue : alert_queue[k].id = id
Forwarded(id) == \E i \in DOMAIN posted : posted[i].id = id

(* C7: a failed post does not end or block the alert sender: after failed
   posts, while self.running holds, the sender thread is in its loop, and
   every alert on the queue is in the end taken off it and posted. *)
C7_SenderSurvivesFailure ==
    /\ [](\A s \in Sessions :
            (SomePostFailed /\ running /\ dpc[s] # "none") => dpc[s] # "done")
    /\ \A id \in AlertIds :
          (SomePostFailed /\ OnQueue(id)) ~> (Forwarded(id) \/ ~running)

(* after a failed post a later alert was posted with success *)
C7_Witness ==
    /\ running
    /\ \E i, j \in DOMAIN posted :
          i < j /\ posted[i].status # HTTP_OK /\ posted[j].status = HTTP_OK

(* C8: with self.running False and the queue empty, the sender blocked in
   get(timeout=1) leaves it by the timeout, tests self.running again and ends,
   and posts nothing on the way. *)
C8_StopExitsOnTimeout ==
    [][\A s \in Sessions :
         /\ (dpc[s] = "get" /\ alert_queue = <<>> /\ dpc'[s] # dpc[s])
               => (dpc'[s] = "loop" /\ posted' = posted /\ alert_data' = alert_data)
         /\ (dpc[s] = "loop" /\ ~running /\ dpc'[s] # dpc[s])
               => (dpc'[s] = "done" /\ posted' = posted /\ alert_queue' = alert_queue)
         /\ (dpc[s] = "done" => dpc'[s] = "done")]_vars

(* self.running is False, the queue is empty and the sender is blocked in
   get: its next step is the timeout *)
C8_Witness ==
    /\ ~running
    /\ alert_queue = <<>>
    /\ posted = <<>>
    /\ \E s \in Sessions : dpc[s] = "get"

(* C9: one feed, three frames with one person at brightness 40 each, a backend
   that answers 200: one alert, CRITICAL, is put on the queue, it is posted
   once, and a 4th frame within the cooldown adds none. *)
C9_EndToEnd ==
    \A w \in Workers :
        (frame_count[w] \in {3, 4} /\ now = ClockStart)
           => /\ next_id = 2
              /\ camera_stats[w[2]].alerts_sent = 1
              /\ \A k \in DOMAIN alert_queue : alert_queue[k].severity = "CRITICAL"
              /\ Len(posted) <= 1

(* C10: the status of a feed changes only stopped -> running,
   running -> stopped and stopped -> error. *)
C10_StatusTransitions ==
    [][\A c \in Cams :
         camera_stats'[c].status # camera_stats[c].status
            => <<camera_stats[c].status, camera_stats'[c].status>>
                 \in {<<"stopped", "running">>, <<"running", "stopped">>,
                      <<"stopped", "error">>}]_vars

(* C11: a running camera_worker that meets the end of the stream or
   self.running = False sets the status of its camera to 'stopped' and
   releases its capture, and leaves frames_processed, alerts_sent and
   last_alert of the camera as they were. *)
C11_StopKeepsStats ==
    [][\A w \in Workers :
         (wpc[w] \in {"loop", "read"} /\ wpc'[w] = "done")
            => /\ camera_stats'[w[2]] =
                     [camera_stats[w[2]] EXCEPT !.status = "stopped"]
               /\ w \notin cap_open']_vars

(* a worker that counted frames and alerts has ended, while self.running
   still holds: it met the end of the stream *)
C11_Witness ==
    \E w \in Workers :
        /\ running
        /\ wpc[w] = "done"
        /\ w \notin cap_open
        /\ camera_stats[w[2]].status = "stopped"
        /\ camera_stats[w[2]].frames_processed >= ProcessEvery
        /\ camera_stats[w[2]].alerts_sent >= 1

(* the stop signal was raised after thread w was started: self.running is
   False, or start_monitoring was called again since *)
StopRaisedFor(w) == wpc[w] # "none" /\ (~running \/ w[1] < session)

(* C12: after self.running is set to False every running camera_worker sees
   it at its next loop test, releases its capture and ends. *)
C12_StopObserved ==
    [][\A w \in Workers :
         (StopRaisedFor(w) /\ wpc[w] = "loop" /\ wpc'[w] # wpc[w])
            => (wpc'[w] = "done" /\ w \notin cap_open')]_vars

(* the threads that have been started and have not ended *)
LiveWorkers(c) == {w \in Workers : w[2] = c /\ wpc[w] \in {"start", "loop", "read"}}
LiveSenders == {s \in Sessions : dpc[s] \in {"loop", "get", "post"}}

(* C13: at every moment there is at most one live camera_worker per enabled
   camera and none for a disabled one, at most one live alert_sender_worker,
   and exactly one while monitoring is running. *)
C13_OneWorkerPerFeed ==
    /\ \A c \in Cams :
          Cardinality(LiveWorkers(c)) <= (IF cameras_enabled[c] THEN 1 ELSE 0)
    /\ Cardinality(LiveSenders) <= 1
    /\ (running /\ mpc = "dashboard") => Cardinality(LiveSenders) = 1

(* C14: analyze_scene_advanced follows the 11 rules in their order, the first
   that matches decides: for every person count, brightness, loitering,
   running, risk zone and crowd level, the severity and the alert type are
   those of the lowest-numbered rule that matches. *)
C14_RulePriority ==
    LET very_dark == scene.brightness < VeryDarkBelow
        dark == scene.brightness < DarkBelow
        count == scene.num_persons
        Matches(n) ==
            CASE n = 1 -> count = 1 /\ very_dark
              [] n = 2 -> count = 1 /\ dark /\ scene.loitering
              [] n = 3 -> count = 1 /\ dark
              [] n = 4 -> count = 2 /\ scene.in_risk_zone /\ dark
              [] n = 5 -> count = 2 /\ dark
              [] n = 6 -> count = 2
              [] n = 7 -> count = 1 /\ scene.speed > RunSpeedAbove
              [] n = 8 -> count = 1
              [] n = 9 -> scene.density > VeryCrowdedAbove
              [] n = 10 -> count >= 3
              [] n = 11 -> TRUE
        Outcome(n) ==
            CASE n = 1 -> <<"CRITICAL", "Lone Woman - Very Dark Area">>
              [] n = 2 -> <<"CRITICAL", "Loitering Detected - Dark Area">>
              [] n = 3 -> <<"HIGH", "Lone Woman - Dark Area">>
              [] n = 4 -> <<"CRITICAL", "Multiple Persons in Risk Zone">>
              [] n = 5 -> <<"HIGH", "Two Persons - Dark Area">>
              [] n = 6 -> <<"MEDIUM", "Two Persons Detected">>
              [] n = 7 -> <<"HIGH", "Running Person Detected">>
              [] n = 8 -> <<"MEDIUM", "Lone Woman Detected">>
              [] n = 9 -> <<"MEDIUM", "Very Crowded Area">>
              [] n = 10 -> <<"LOW", "Multiple Persons">>
              [] n = 11 -> <<"LOW", "Normal Activity">>
        first == CHOOSE n \in 1..11 : Matches(n) /\ \A m \in 1..(n - 1) : ~Matches(m)
    IN
    assessed.by = "analyze_scene_advanced"
        => <<assessed.severity, assessed.alert_type>> = Outcome(first)

(* a scene that matches rule 1 and the later rules 2, 3, 7 and 8 was assessed
   by rule 1 *)
C14_Witness ==
    /\ assessed.by = "analyze_scene_advanced"
    /\ scene.num_persons = 1
    /\ scene.brightness = 30
    /\ scene.loitering
    /\ scene.speed = 51
    /\ assessed.alert_type = "Lone Woman - Very Dark Area"

(* C15: the assessment the workers run follows the decision table:
   1 person at brightness 30 is CRITICAL; 2 persons at brightness 90 outside
   a risk zone are MEDIUM; 4 persons at density 0.05 are LOW. *)
C15_DecisionTable ==
    assessed.by # "none"
        => /\ (scene.num_persons = 1 /\ scene.brightness = 30)
                 => assessed.severity = "CRITICAL"
           /\ (scene.num_persons = 2 /\ scene.brightness = 90 /\ ~scene.in_risk_zone)
                 => assessed.severity = "MEDIUM"
           /\ (scene.num_persons = 4 /\ scene.density = 5)
                 => assessed.severity = "LOW"

(* C16: an alert is built and sent on only if the severity is MEDIUM or
   above and the cooldown permits; no LOW alert is sent, an assessment sends
   at most one alert, and the permit is recorded in the same step: here for
   send_alert, where sending on is the post and the permit is the entry of
   self.last_alert_time. *)
C16_AlertIffPermitted ==
    [][/\ Len(esm_posted') <= Len(esm_posted) + 1
       /\ Len(esm_posted') = Len(esm_posted) + 1
            => LET alert == esm_posted'[Len(esm_posted')]
               IN /\ SeverityAlerts(alert.severity)
                  /\ alert.cameraId \in DOMAIN esm_last_alert_time'
                  /\ esm_last_alert_time'[alert.cameraId] = alert.time]_vars

(* C17: the alerts of one camera are put on the queue and posted to the
   backend in the order of the frames that caused them (the order of their
   ids); alerts of different cameras may interleave. *)
C17_FeedOrder ==
    /\ \A i, j \in DOMAIN alert_queue :
          (i < j /\ alert_queue[i].cameraId = alert_queue[j].cameraId)
             => alert_queue[i].id < alert_queue[j].id
    /\ \A i, j \in DOMAIN posted :
          (i < j /\ posted[i].cameraId = posted[j].cameraId)
             => posted[i].id < posted[j].id

(* the source of thread w failed in this step: it did not open, or a read
   returned no frame *)
SourceFailed(w) ==
    \/ wpc[w] = "start" /\ wpc'[w] = "failed"
    \/ wpc[w] = "read" /\ wpc'[w] = "done"

(* C18: a source failure (failed open or failed read) of one camera ends the
   worker of that camera only: its status becomes 'error' or 'stopped', and
   the status, counters, cooldown and position of the workers of the other
   cameras and of the alert sender stay as they are. *)
C18_FailureIsolated ==
    [][\A a \in Workers :
         SourceFailed(a)
            => /\ camera_stats'[a[2]].status \in {"error", "stopped"}
               /\ \A c \in Cams \ {a[2]} : camera_stats'[c] = camera_stats[c]
               /\ \A b \in Workers :
                     b[2] # a[2]
                        => /\ wpc'[b] = wpc[b]
                           /\ frame_count'[b] = frame_count[b]
                           /\ last_alert_time'[b] = last_alert_time[b]
                           /\ (b \in cap_open') <=> (b \in cap_open)
               /\ UNCHANGED <<running, dpc, alert_data, posted, alert_queue>>]_vars

(* the source of one camera failed while the worker of another camera, which
   has sent an alert, goes on reading frames and the alert sender runs *)
C18_Witness ==
    \E a, b \in Workers :
        /\ a[2] # b[2]
        /\ wpc[a] = "failed"
        /\ camera_stats[a[2]].status = "error"
        /\ wpc[b] = "read"
        /\ camera_stats[b[2]].status = "running"
        /\ camera_stats[b[2]].alerts_sent >= 1
        /\ running
        /\ \E s \in Sessions : dpc[s] = "get"

(* C19: no failure leaves a worker: an exception raised in the loop of
   camera_worker or of alert_sender_worker is caught inside the thread, which
   never ends with an exception. *)
C19_NoEscape ==
    /\ \A w \in Workers : wpc[w] # "raised"
    /\ \A s \in Sessions : dpc[s] # "raised"

(* C20: the camera_stats entry of a camera (frames_processed, alerts_sent,
   last_alert, status) changes only in a step of a camera_worker of that
   camera: never in a step of a worker of another camera, of the alert
   sender or of the main thread with its dashboard. *)
C20_StatsOwnedByWorker ==
    [][\A c \in Cams :
         camera_stats'[c] # camera_stats[c]
            => /\ \E w \in Workers : w[2] = c /\ WorkerStep(w)
               /\ \A b \in Workers : b[2] # c => wpc'[b] = wpc[b]
               /\ UNCHANGED <<dpc, mpc>>]_vars

(* both workers have counted frames and alerts, the alert sender has posted
   and the dashboard is up *)
C20_Witness ==
    /\ \A c \in Cams :
          /\ camera_stats[c].alerts_sent >= 1
          /\ camera_stats[c].frames_processed >= ProcessEvery
    /\ Len(posted) >= 1
    /\ mpc = "dashboard"

(* the main thread in print_status_dashboard takes a step: it stays in the
   dashboard while no camera_worker, no alert sender and not the clock moves *)
DashboardStep ==
    /\ mpc = "dashboard"
    /\ mpc' = "dashboard"
    /\ running
    /\ UNCHANGED <<wpc, dpc, now, backend_vars>>

(* C21: every step of the status dashboard leaves camera_stats, the contents
   of alert_queue, the cooldown timestamps of the workers and the flag
   self.running as they are. *)
C21_DashboardReadOnly ==
    [][DashboardStep
         => UNCHANGED <<camera_stats, alert_queue, last_alert_time, running>>]_vars

(* the dashboard is up while an alert is pending and frames have been counted *)
C21_Witness ==
    /\ mpc = "dashboard"
    /\ running
    /\ alert_queue # <<>>
    /\ \E c \in Cams : /\ camera_stats[c].frames_processed >= ProcessEvery
                       /\ camera_stats[c].alerts_sent >= 1
                       /\ camera_stats[c].status = "running"

(* camera_worker thread w reads a frame in this step (line 133) *)
FrameReadBy(w) == frame_count'[w] = frame_count[w] + 1

(* C22: a camera_worker counts every frame it reads in frames_processed, and
   runs the analysis and the cooldown / alert step only on frames whose
   1-based index is a multiple of the sampling interval: a step that reads
   another frame leaves the analysis, the queue, the alert counter and the
   cooldown timestamp as they are, and these change in no step but the
   reading of a sampled frame. *)
C22_SamplingInterval ==
    [][\A w \in Workers :
         /\ FrameReadBy(w)
              => /\ camera_stats'[w[2]].frames_processed = frame_count'[w]
                 /\ frame_count'[w] % ProcessEvery # 0
                      => /\ analysis'[w] = analysis[w]
                         /\ last_alert_time'[w] = last_alert_time[w]
                         /\ alert_queue' = alert_queue
                         /\ ~Enqueued
                         /\ camera_stats'[w[2]].alerts_sent
                               = camera_stats[w[2]].alerts_sent
         /\ (analysis'[w] # analysis[w] \/ last_alert_time'[w] # last_alert_time[w])
              => /\ FrameReadBy(w)
                 /\ frame_count'[w] % ProcessEvery = 0
         /\ (Enqueued \/ camera_stats'[w[2]].alerts_sent # camera_stats[w[2]].alerts_sent)
              => \E v \in Workers : /\ FrameReadBy(v)
                                    /\ frame_count'[v] % ProcessEvery = 0]_vars

(* the worker has put an alert on the queue for frame ProcessEvery and has
   read and counted the frames after it, up to the one before the next
   sampled frame, with the backend yet to take the alert *)
C22_Witness ==
    \E w \in Workers :
        /\ frame_count[w] = 2 * ProcessEvery - 1
        /\ camera_stats[w[2]].frames_processed = frame_count[w]
        /\ camera_stats[w[2]].alerts_sent = 1
        /\ analysis[w] = "CRITICAL"
        /\ Len(alert_queue) = 1

(* the timestamps of a track never decrease along the deque *)
TimeOrdered(timestamps) ==
    \A i \in 1..(Len(timestamps) - 1) : timestamps[i] <= timestamps[i + 1]

(* C23: after any sequence of tracker updates every track holds at most
   TrackMaxLen positions and as many timestamps, the timestamps are in
   non-decreasing order, and an update of a full track drops exactly the
   oldest sample: the other samples stay, in order, before the new one. *)
C23_TrackBounded ==
    [][\A id \in DOMAIN person_tracks' :
         LET old == Track(person_tracks, id)
             new == person_tracks'[id]
         IN  /\ Len(new.positions) <= TrackMaxLen
             /\ Len(new.timestamps) = Len(new.positions)
             /\ TimeOrdered(new.timestamps)
             /\ (new # old /\ Len(old.positions) = TrackMaxLen)
                  => /\ Len(new.positions) = TrackMaxLen
                     /\ SubSeq(new.positions, 1, TrackMaxLen - 1)
                           = Tail(old.positions)
                     /\ SubSeq(new.timestamps, 1, TrackMaxLen - 1)
                           = Tail(old.timestamps)
                     /\ new.timestamps[TrackMaxLen] = now]_vars

(* a full track that has been updated once more: the first sample is gone,
   and the samples retained were taken at different times *)
C23_Witness ==
    /\ "person_0" \in DOMAIN person_tracks
    /\ subject.updates = TrackMaxLen + 1
    /\ LET t == person_tracks["person_0"]
       IN  /\ Len(t.positions) = TrackMaxLen
           /\ t.timestamps[1] > t.first_seen
           /\ t.timestamps[TrackMaxLen] > t.timestamps[1]

(* The staleness window of the tracker, in seconds.  The spec names the
   window without a value and the code has none; absences of up to 301 s
   occur in SpecTrack. *)
StalenessWindow == 300

(* the last time a track was updated *)
LastUpdate(track) == track.timestamps[Len(track.timestamps)]

(* C24: a track identity that got no update within the staleness window is
   forgotten, samples and first-seen timestamp: when the identity appears
   again after the window, its track starts anew, with the new sample alone
   and first_seen the time of that sample. *)
C24_StaleForgotten ==
    [][\A id \in DOMAIN person_tracks :
         LET old == person_tracks[id]
             new == person_tracks'[id]
         IN  (new # old /\ now - LastUpdate(old) > StalenessWindow)
                => /\ new.first_seen = now
                   /\ Len(new.positions) = 1
                   /\ new.timestamps = <<now>>]_vars

(* C25: track state is never shared across feeds: when a frame of one source
   is analysed, the track that is updated and consulted holds only samples
   taken from frames of that source, and its first_seen was set by a frame
   of that source, also when two sources are monitored one after the other
   by the same monitor. *)
C25_TracksNotShared ==
    [][person_tracks' # person_tracks
         => \A id \in DOMAIN track_sources' :
               LET h == track_sources'[id]
               IN  /\ h.first_seen = esm_source
                   /\ \A i \in DOMAIN h.samples : h.samples[i] = esm_source]_vars

(* the bounding extent of the retained positions is below the radius: no two
   of them are LoiterRadius or more apart in x or in y *)
ExtentBelowRadius(positions) ==
    \A i, j \in DOMAIN positions :
        /\ positions[i][1] - positions[j][1] < LoiterRadius
        /\ positions[i][2] - positions[j][2] < LoiterRadius

(* the loitering signal computed last agrees with the rule that asks for
   min_samples samples or more *)
LoiteringAgrees(min_samples) ==
    signals.computed = "loitering"
       => LET track == person_tracks["person_0"]
          IN  signals.value
                 <=> /\ signals.at - track.first_seen > LoiterSeconds
                     /\ ExtentBelowRadius(track.positions)
                     /\ Len(track.positions) >= min_samples

(* C26: loitering of a track is true if and only if now - first_seen exceeds
   300, the bounding extent of the retained samples, the larger of
   max x - min x and max y - min y, is below 100, and at least 10 samples
   have accumulated; an extent of 100 or more gives false whatever the
   dwell time. *)
C26_LoiteringIff == LoiteringAgrees(LoiterMinSamples)

(* C26 as amended: more than 10 samples, that is at least 11, are needed. *)
C26_LoiteringIffAmended == LoiteringAgrees(LoiterMinSamples + 1)

(* loitering has been found for a person who dwelt more than 300 s within
   less than 100 pixels *)
C26_Witness ==
    /\ signals.computed = "loitering"
    /\ signals.value
    /\ signals.at = now
    /\ Len(person_tracks["person_0"].positions) > LoiterMinSamples

(* the length of the polyline through the positions, segment by segment from
   the front *)
RECURSIVE PolylineLength(_)
PolylineLength(positions) ==
    IF Len(positions) < 2 THEN 0
    ELSE Distance(positions[1], positions[2]) + PolylineLength(Tail(positions))

(* C27: the speed computed for a track is non-negative, is exactly 0 when
   fewer than two samples are retained or when the oldest and the newest
   retained timestamps are equal, and otherwise equals the length of the
   polyline through the retained positions divided by the time from the
   oldest to the newest retained timestamp. *)
C27_SpeedIsPathOverTime ==
    signals.computed = "speed"
       => LET track == person_tracks["person_0"]
              n == Len(track.timestamps)
              speed == signals.value
          IN  /\ speed.num >= 0
              /\ speed.den > 0
              /\ IF n < 2 \/ track.timestamps[n] = track.timestamps[1]
                   THEN speed.num = 0
                   ELSE speed.num * (track.timestamps[n] - track.timestamps[1])
                           = PolylineLength(track.positions) * speed.den

(* a positive speed has been computed over a full track that has lost its
   first samples, along a path that is longer than its net displacement *)
C27_Witness ==
    /\ signals.computed = "speed"
    /\ signals.value.num > 0
    /\ signals.value.den > 1
    /\ subject.updates > TrackMaxLen
    /\ subject.motion = "pace"

(* the crowd level returned for the scene is the bucket of its density ratio
   r (in hundredths); a scene without persons is in bucket `none_level` *)
CrowdBucketAgrees(none_level) ==
    assessed.by = "analyze_scene_advanced"
       => LET r == scene.density
              level == assessed.crowd_level
          IN  IF scene.num_persons = 0
                THEN level = none_level
                ELSE /\ r > VeryCrowdedAbove => level = "very_crowded"
                     /\ (CrowdedAbove < r /\ r <= VeryCrowdedAbove)
                          => level = "crowded"
                     /\ (ModerateAbove < r /\ r <= CrowdedAbove)
                          => level = "moderate"
                     /\ r <= ModerateAbove => level = "sparse"

(* C28: the crowd-density bucket is a function of the ratio r of the summed
   box areas to the frame area: very crowded if r > 0.6, crowded if
   0.3 < r <= 0.6, moderate if 0.1 < r <= 0.3, and sparse in every other
   case, a frame with no detections included. *)
C28_CrowdBucket == CrowdBucketAgrees("sparse")

(* C28 as amended: a frame in which no person is detected is in the bucket
   "empty" of its own; sparse is r <= 0.1 with at least one person. *)
C28_CrowdBucketAmended == CrowdBucketAgrees("empty")

(* a scene whose ratio is exactly 0.6 was put in the bucket crowded *)
C28_Witness ==
    /\ assessed.by = "analyze_scene_advanced"
    /\ scene.density = VeryCrowdedAbove
    /\ assessed.crowd_level = "crowded"

(* No camera_worker has put an alert on the queue since self.running went
   False: after that a worker reads at most the one frame whose loop test it
   had passed, and here every worker has read a frame that is not analysed
   since the last frame it analysed. *)
QueuedBeforeStop ==
    \A w \in Workers : frame_count[w] = 0 \/ frame_count[w] % ProcessEvery # 0

(* C29: every alert put on the queue before the stop is forwarded before
   the alert sender ends: when alert_sender_worker leaves its loop the queue
   is empty, and nothing is left behind for a later session. *)
C29_QueueDrainedAtExit ==
    [][\A s \in Sessions :
         (dpc[s] = "loop" /\ dpc'[s] = "done" /\ QueuedBeforeStop)
            => alert_queue = <<>>]_vars

(* the camera_worker threads of camera c that have their source open and
   are in the loop *)
InLoop(c) == {w \in Workers : w[2] = c /\ w \in cap_open /\ wpc[w] \in {"loop", "read"}}

(* C30: the status of a feed agrees with its worker: it is 'running'
   exactly while a camera_worker of the feed has its source open and is in
   its loop, and 'stopped' or 'error' only when no worker of the feed is,
   also after monitoring was stopped and started again while a worker of the
   previous session has not ended yet. *)
C30_StatusAgrees ==
    \A c \in Cams :
        /\ camera_stats[c].status = "running" <=> InLoop(c) # {}
        /\ camera_stats[c].status \in {"stopped", "error"} => InLoop(c) = {}

(* the sum of alerts_sent over the cameras in S *)
RECURSIVE AlertsSentOver(_)
AlertsSentOver(S) ==
    IF S = {} THEN 0
    ELSE LET c == CHOOSE x \in S : TRUE
         IN  camera_stats[c].alerts_sent + AlertsSentOver(S \ {c})

(* C31: alert conservation: the sum of alerts_sent over all cameras equals
   the number of alerts on the queue plus the number the alert sender has
   taken off it, posted with success, posted without, or in flight; and the
   alert sender never posts an alert that no camera_worker put on the
   queue. *)
C31_AlertConservation ==
    /\ AlertsSentOver(Cams)
          = Len(alert_queue) + Len(posted) + Cardinality(InFlight)
    /\ \A i \in DOMAIN posted : posted[i].id \in 1..(next_id - 1)
    /\ \A s \in InFlight : alert_data[s].id \in 1..(next_id - 1)

(* both cameras have counted alerts; one alert was posted with success, one
   failed, one is in flight and one is on the queue *)
C31_Witness ==
    /\ \A c \in Cams : camera_stats[c].alerts_sent >= 1
    /\ \E i, j \in DOMAIN posted :
          posted[i].status = HTTP_OK /\ posted[j].status # HTTP_OK
    /\ InFlight # {}
    /\ alert_queue # <<>>

(* C32: in send_alert of the single-feed monitors a request that fails (a
   status other than 200, or a transport error), a call inside the cooldown
   and a call with a severity that does not alert leave last_alert_time as
   it was; last_alert_time is written only when the endpoint returned 200,
   and then only the entry of the camera_id of the call, with the time of
   the call. *)
C32_TimestampOnlyOn200 ==
    [][\A c \in Sources, sev \in {"CRITICAL", "LOW"}, o \in Outcomes :
          SendAlert(c, sev, o) =>
             \/ esm_last_alert_time' = esm_last_alert_time
             \/ /\ o = HTTP_OK
                /\ SeverityAlerts(sev)
                /\ c \in DOMAIN esm_last_alert_time
                      => now - esm_last_alert_time[c] >= alert_cooldown
                /\ DOMAIN esm_last_alert_time'
                      = DOMAIN esm_last_alert_time \cup {c}
                /\ esm_last_alert_time'[c] = now
                /\ \A k \in DOMAIN esm_last_alert_time \ {c} :
                      esm_last_alert_time'[k] = esm_last_alert_time[k]]_vars

(* the request of one source failed and that source has no timestamp, the
   request of the other source returned 200 and its timestamp is the time
   of that request *)
C32_Witness ==
    \E c, d \in Sources :
       /\ c # d
       /\ c \notin DOMAIN esm_last_alert_time
       /\ \E i \in DOMAIN esm_posted :
             esm_posted[i].cameraId = c /\ esm_posted[i].status # HTTP_OK
       /\ d \in DOMAIN esm_last_alert_time
       /\ \E j \in DOMAIN esm_posted :
             /\ esm_posted[j].cameraId = d
             /\ esm_posted[j].status = HTTP_OK
             /\ esm_posted[j].time = esm_last_alert_time[d]

(* a thread is started in the step: a camera_worker or the alert sender *)
ThreadStarted ==
    \/ \E w \in Workers : wpc'[w] = "start" /\ wpc[w] # "start"
    \/ \E s \in Sessions : dpc'[s] = "loop" /\ dpc[s] = "none"

(* C35: start_monitoring starts threads only after the health request
   returned a response.  When the health request raises, running stays
   False, no alert sender and no camera_worker is started and camera_stats
   is unchanged; when it returns a status other than 200, running is set
   and the alert sender and a camera_worker for every enabled camera are
   started all the same. *)
C35_StartNeedsHealthResponse ==
    [][/\ (health' = 0 /\ health' # health) =>
             /\ ~running /\ ~running'
             /\ ~ThreadStarted
             /\ UNCHANGED <<wpc, dpc, camera_stats, session, mpc>>
       /\ (ThreadStarted \/ (~running /\ running')) =>
             /\ mpc = "menu" /\ mpc' = "dashboard"
             /\ health' \in {HTTP_OK, 500}
       /\ (mpc = "menu" /\ mpc' = "dashboard" /\ health' # HTTP_OK) =>
             /\ running'
             /\ session' = session + 1
             /\ dpc'[session'] = "loop"
             /\ \A c \in Cams :
                   cameras_enabled[c] => wpc'[<<session', c>>] = "start"]_vars

(* after a session that processed frames, a call of start_monitoring whose
   health request raised: nothing runs and the statistics are kept *)
C35_Witness ==
    /\ health = 0
    /\ mpc = "menu"
    /\ ~running
    /\ session = 1
    /\ \E c \in Cams : camera_stats[c].frames_processed > 0
    /\ \A w \in Workers : w[1] = 2 => wpc[w] = "none"
    /\ dpc[2] = "none"

(* every camera_worker of the session has ended: end of stream, a failed
   open, or an exception *)
AllFeedsEnded ==
    /\ session >= 1
    /\ \A c \in Cams :
          cameras_enabled[c] => wpc[<<session, c>>] \in {"done", "failed", "raised"}

(* the alert sender has ended and start_monitoring has left the dashboard *)
SessionEnded ==
    /\ mpc # "dashboard"
    /\ \A s \in Sessions : dpc[s] \in {"none", "done"}

(* C36: once every enabled feed has reached end of stream or failed to open
   and the queue is drained, the alert sender and the dashboard end and
   start_monitoring returns, with or without a stop from outside. *)
C36_SessionTerminates ==
    (AllFeedsEnded /\ alert_queue = <<>>) ~> SessionEnded

(* C36, amended: with every feed ended and the queue drained, the alert
   sender and the dashboard keep running while self.running holds;
   self.running is cleared by the KeyboardInterrupt handler only, the
   dashboard is left by that handler only, and the alert sender ends only
   when self.running is False. *)
C36_ExitOnlyAfterStop ==
    [][/\ (AllFeedsEnded /\ alert_queue = <<>> /\ running)
             => (mpc = "dashboard" /\ session \in LiveSenders)
       /\ (running /\ ~running') => (mpc = "dashboard" /\ mpc' = "joining")
       /\ (mpc = "dashboard" /\ mpc' # "dashboard") => (mpc' = "joining" /\ ~running')
       /\ \A s \in Sessions :
             (dpc[s] # "done" /\ dpc'[s] = "done") => ~running]_vars

(* the feed has ended, its alert was posted, the queue is empty, time has
   passed, and the dashboard and the alert sender still run *)
C36_Witness ==
    /\ AllFeedsEnded
    /\ alert_queue = <<>>
    /\ posted # <<>>
    /\ now > ClockStart
    /\ running
    /\ mpc = "dashboard"
    /\ dpc[session] = "get"

(* the order LOW < MEDIUM < MAY_RISK < HIGH < CRITICAL *)
Rank(severity) ==
    CASE severity = "LOW"      -> 0
      [] severity = "MEDIUM"   -> 1
      [] severity = "MAY_RISK" -> 2
      [] severity = "HIGH"     -> 3
      [] severity = "CRITICAL" -> 4

(* the severity each method gives the assessed scene at brightness b, the
   detections and the other signals being those of the scene *)
SeverityAt(b) ==
    CASE assessed.by = "analyze_frame" ->
            analyze_frame(scene.num_persons, b).severity
      [] assessed.by = "analyze_scene_advanced" ->
            analyze_scene_advanced([scene EXCEPT !.brightness = b]).severity
      [] assessed.by = "analyze_scene" ->
            analyze_scene(assessed.women_count, assessed.men_count, b).severity

(* is_dark of the method that assessed the scene *)
IsDarkAt(b) ==
    IF assessed.by = "analyze_scene" THEN b < SceneDarkBelow ELSE b < DarkBelow

(* C34: in every variant of the risk assessment (analyze_frame,
   analyze_scene_advanced, SafetyMonitor.analyze_scene) the severity of a
   dark frame is never lower, in the order LOW < MEDIUM < MAY_RISK < HIGH <
   CRITICAL, than the severity of the same scene well-lit. *)
C34_DarkNeverLower ==
    (assessed.by # "none" /\ IsDarkAt(scene.brightness)) =>
        /\ assessed.severity = SeverityAt(scene.brightness)
        /\ \A b \in BrightnessLevels :
              ~IsDarkAt(b) => Rank(assessed.severity) >= Rank(SeverityAt(b))

(* C33: when exactly one person is detected in a frame, the loitering and
   speed signals used for the risk decision are those of the track that was
   updated for that person in the same frame, whatever the index of the
   person's box in detection.boxes. *)
C33_SignalsOfUpdatedTrack ==
    LET track == Track(person_tracks, signals.updated)
    IN  /\ signals.computed = "loitering" =>
              signals.value = detect_loitering(track, signals.at)
        /\ signals.computed = "speed" =>
              signals.value = calculate_speed(track.positions, track.timestamps)

(* C37: every alert accepted by POST /send-alert is emitted to each open
   /alerts/stream client exactly once and in the order of acceptance, also
   when an alert is posted while the generator is suspended between two
   yields: what a client has been sent is the list of alerts, in order, up
   to the point its generator has reached. *)
C37_EmittedOnceInOrder ==
    \A k \in Clients :
        stream[k].pc # "closed" =>
            /\ Len(emitted[k]) <= Len(alerts)
            /\ emitted[k] = SubSeq(alerts, 1, Len(emitted[k]))
            /\ stream[k].pc \in {"test", "sleep"} =>
                  Len(emitted[k]) = stream[k].last_index

====
